---- MODULE Spec2Model ----
(***************************************************************************)
(* Variance adaptor of a FastSpeech-style acoustic model                   *)
(* (src/model/modules.py): VariancePredictor, VarianceAdaptor and          *)
(* LengthRegulator, modelled as calls on module objects.                   *)
(*                                                                         *)
(* Tensors are sequences: a (batch, time) tensor is a sequence of rows, a  *)
(* (batch, time, hidden) tensor a sequence of rows of vectors.  An         *)
(* optional argument is <<>> (Python's None) or <<v>>.  Real numbers are   *)
(* fixed point, in hundredths, where the code computes with floats.        *)
(***************************************************************************)
EXTENDS Integers, Sequences, FiniteSets, TLC

VARIABLES
    kernel,       \* hp.variance_predictor_kernel_size, read at construction
    log_offset,   \* hp.log_offset, in hundredths
    n_bins,       \* hp.n_bins
    pitch_bins,   \* VarianceAdaptor.pitch_bins, in hundredths
    energy_bins,  \* VarianceAdaptor.energy_bins, in units of 1/(n_bins-2)
    op,           \* the method called last
    args,         \* its arguments
    ret           \* what it returned, or that it raised

vars == <<kernel, log_offset, n_bins, pitch_bins, energy_bins, op, args, ret>>

-----------------------------------------------------------------------------
(* Bounds of the model *)

BatchSize == 2    \* samples in a batch
NPos == 2         \* phoneme positions of a sample
MaxDur == 2       \* largest duration count of a duration input
HiddenDim == 2    \* width of a hidden vector
MaxKernel == 3    \* largest configured predictor kernel size
MaxBins == 3      \* largest configured n_bins
MaxBoundary == 4  \* largest bucket boundary of a free boundary vector

-----------------------------------------------------------------------------
(* Helpers *)

RECURSIVE SumSeq(_)
SumSeq(s) == IF Len(s) = 0 THEN 0 ELSE Head(s) + SumSeq(Tail(s))

RECURSIVE MaxSeq(_)
MaxSeq(s) ==
    IF Len(s) = 0 THEN 0
    ELSE LET m == MaxSeq(Tail(s)) IN IF Head(s) > m THEN Head(s) ELSE m

ZeroVec == [h \in 1..HiddenDim |-> 0]

\* vec.expand(k, -1): k rows, each the vector
Repeat(vec, k) == IF k <= 0 THEN <<>> ELSE [j \in 1..k |-> vec]

\* A batch whose odd samples hold row r1 and whose even samples hold row r2
TwoRows(r1, r2) == [b \in 1..BatchSize |-> IF b % 2 = 1 THEN r1 ELSE r2]

-----------------------------------------------------------------------------
(* LengthRegulator *)

RECURSIVE ExpandFrom(_, _, _)
ExpandFrom(batch, predicted, i) ==
    IF i > Len(batch) THEN <<>>
    ELSE Repeat(batch[i], predicted[i]) \o ExpandFrom(batch, predicted, i + 1)

\* A plausible slip: a position always emits at least one frame.
expandAtLeastOne(batch, predicted) ==
    IF Len(predicted) < Len(batch) \/ \E i \in 1..Len(batch) : predicted[i] < 0
    THEN [err |-> TRUE, out |-> <<>>]
    ELSE [err |-> FALSE,
          out |-> ExpandFrom(batch,
                     [i \in 1..Len(predicted) |->
                         IF predicted[i] = 0 THEN 1 ELSE predicted[i]], 1)]

\* LengthRegulator.expand: predicted[i] raises when predicted is shorter than
\* batch, vec.expand(k, -1) raises for k < 0, torch.cat joins the runs.
expand(batch, predicted) ==
    IF Len(predicted) < Len(batch) \/ \E i \in 1..Len(batch) : predicted[i] < 0
    THEN [err |-> TRUE, out |-> <<>>]
    ELSE [err |-> FALSE, out |-> ExpandFrom(batch, predicted, 1)]

\* A plausible slip in the padding: cut a longer sample down to the length.
padTruncating(input_ele, mel_max_length) ==
    LET lens == [b \in 1..Len(input_ele) |-> Len(input_ele[b])]
        max_len == IF mel_max_length = <<>> THEN MaxSeq(lens) ELSE mel_max_length[1]
    IN [err |-> FALSE,
        out |-> [b \in 1..Len(input_ele) |->
                    IF lens[b] > max_len THEN SubSeq(input_ele[b], 1, max_len)
                    ELSE input_ele[b] \o Repeat(ZeroVec, max_len - lens[b])]]

\* utils.pad: right-pads every sample with zero vectors to mel_max_length, or to
\* the longest sample when no length is given; fails on a sample longer than
\* the length given.
pad(input_ele, mel_max_length) ==
    LET lens == [b \in 1..Len(input_ele) |-> Len(input_ele[b])]
        max_len == IF mel_max_length = <<>> THEN MaxSeq(lens) ELSE mel_max_length[1]
    IN IF \E b \in 1..Len(input_ele) : lens[b] > max_len
       THEN [err |-> TRUE, out |-> <<>>]
       ELSE [err |-> FALSE,
             out |-> [b \in 1..Len(input_ele) |->
                         input_ele[b] \o Repeat(ZeroVec, max_len - lens[b])]]

LRRaised == [err |-> TRUE, output |-> <<>>, mel_len |-> <<>>]

\* A plausible slip: the lengths are taken after the padding.
LRLenAfterPad(x, duration, max_len) ==
    LET e == [b \in 1..Len(x) |-> expand(x[b], duration[b])]
    IN IF \E b \in 1..Len(x) : e[b].err THEN LRRaised
       ELSE LET p == pad([b \in 1..Len(x) |-> e[b].out], max_len)
            IN IF p.err THEN LRRaised
               ELSE [err |-> FALSE, output |-> p.out,
                     mel_len |-> [b \in 1..Len(x) |-> Len(p.out[b])]]

\* A plausible slip: max_len is not passed on to the padding.
LRIgnoringMaxLen(x, duration, max_len) ==
    LET e == [b \in 1..Len(x) |-> expand(x[b], duration[b])]
    IN IF \E b \in 1..Len(x) : e[b].err THEN LRRaised
       ELSE LET p == pad([b \in 1..Len(x) |-> e[b].out], <<>>)
            IN IF p.err THEN LRRaised
               ELSE [err |-> FALSE, output |-> p.out,
                     mel_len |-> [b \in 1..Len(x) |-> Len(e[b].out)]]

\* LengthRegulator.LR (and forward, which only calls it)
LR(x, duration, max_len) ==
    LET e == [b \in 1..Len(x) |-> expand(x[b], duration[b])]
    IN IF \E b \in 1..Len(x) : e[b].err THEN LRRaised
       ELSE LET output == [b \in 1..Len(x) |-> e[b].out]
                mel_len == [b \in 1..Len(x) |-> Len(e[b].out)]
                p == IF max_len # <<>> THEN pad(output, max_len) ELSE pad(output, <<>>)
            IN IF p.err THEN LRRaised
               ELSE [err |-> FALSE, output |-> p.out, mel_len |-> mel_len]

-----------------------------------------------------------------------------
(* VariancePredictor *)

\* Conv.forward (nn.Conv1d, stride 1, dilation 1): the output length for an
\* input of length L, 0 when the convolution raises (the padded input is
\* shorter than the kernel) or got no input
ConvLen(L, kernel_size, padding) ==
    IF L = 0 \/ L + 2 * padding < kernel_size THEN 0
    ELSE L + 2 * padding - kernel_size + 1

\* VariancePredictor.conv_layer: conv1d_1 pads (kernel-1)//2, conv1d_2 pads 1;
\* relu, layer norm and dropout keep the length
conv_layer_len(T, K) == ConvLen(ConvLen(T, K, (K - 1) \div 2), K, 1)

\* Tensor.masked_fill(mask, 0.0): out and mask are broadcast against each other
\* along time (sizes equal, or one of them 1), else it raises
masked_fill(out, mask) ==
    LET Lo == Len(out[1])
        Lm == Len(mask[1])
        L == IF Lo >= Lm THEN Lo ELSE Lm
    IN IF Lo # Lm /\ Lo # 1 /\ Lm # 1 THEN [err |-> TRUE, out |-> <<>>]
       ELSE [err |-> FALSE,
             out |-> [b \in 1..Len(out) |-> [t \in 1..L |->
                        IF mask[b][IF Lm = 1 THEN 1 ELSE t] THEN 0
                        ELSE out[b][IF Lo = 1 THEN 1 ELSE t]]]]

\* A plausible slip: the result of the out-of-place masked_fill is dropped.
VPforwardUnmasked(K, encoder_output, mask, net) ==
    LET L == conv_layer_len(Len(encoder_output[1]), K)
    IN IF L = 0 THEN [err |-> TRUE, out |-> <<>>]
       ELSE [err |-> FALSE,
             out |-> [b \in 1..Len(encoder_output) |-> [t \in 1..L |-> net[b][t]]]]

\* VariancePredictor.forward.  net[b][t] is what conv_layer, linear_layer and
\* squeeze compute for sample b at output position t: the learned function is
\* not interpreted.
VPforward(K, encoder_output, mask, net) ==
    LET L == conv_layer_len(Len(encoder_output[1]), K)
    IN IF L = 0 THEN [err |-> TRUE, out |-> <<>>]
       ELSE LET out == [b \in 1..Len(encoder_output) |-> [t \in 1..L |-> net[b][t]]]
            IN IF mask # <<>> THEN masked_fill(out, mask[1])
               ELSE [err |-> FALSE, out |-> out]

-----------------------------------------------------------------------------
(* Bucketization *)

\* torch.bucketize with right=True: a value on a boundary goes one bucket up.
RECURSIVE UpperBound(_, _, _, _)
UpperBound(boundaries, v, lo, hi) ==
    IF lo >= hi THEN lo
    ELSE LET mid == (lo + hi) \div 2
         IN IF boundaries[mid + 1] > v THEN UpperBound(boundaries, v, lo, mid)
            ELSE UpperBound(boundaries, v, mid + 1, hi)

bucketizeRight(v, boundaries) == UpperBound(boundaries, v, 0, Len(boundaries))

\* The binary search of torch.bucketize (right=False): the first 0-based index
\* in lo..hi-1 whose boundary is >= v, hi when there is none
RECURSIVE LowerBound(_, _, _, _)
LowerBound(boundaries, v, lo, hi) ==
    IF lo >= hi THEN lo
    ELSE LET mid == (lo + hi) \div 2
         IN IF boundaries[mid + 1] >= v THEN LowerBound(boundaries, v, lo, mid)
            ELSE LowerBound(boundaries, v, mid + 1, hi)

\* torch.bucketize(v, boundaries)
bucketize(v, boundaries) == LowerBound(boundaries, v, 0, Len(boundaries))

-----------------------------------------------------------------------------
(* VarianceAdaptor *)

\* The hyperparameters the adaptor's bins are built from: log(f0_min),
\* log(f0_max), energy_min, energy_max
hp == [log_f0_min |-> 0, log_f0_max |-> 6, energy_min |-> 0, energy_max |-> 6]

\* exp(p) in hundredths, for the whole p the model computes with
Exp100(p) ==
    CASE p = -3 -> 5      [] p = -2 -> 14    [] p = -1 -> 37   [] p = 0 -> 100
      [] p = 1 -> 272     [] p = 2 -> 739    [] p = 3 -> 2009  [] p = 4 -> 5460
      [] p = 5 -> 14841   [] p = 6 -> 40343

\* torch.linspace(start, end, steps); exact for the ranges of hp, whose span
\* every steps-1 of the model divides
linspace(start, end, steps) ==
    [i \in 1..steps |->
        IF steps = 1 THEN start ELSE start + ((i - 1) * (end - start)) \div (steps - 1)]

\* VarianceAdaptor.__init__: pitch_bins
PitchBins(n) ==
    LET l == linspace(hp.log_f0_min, hp.log_f0_max, n - 1)
    IN [i \in 1..(n - 1) |-> Exp100(l[i])]

\* VarianceAdaptor.__init__: energy_bins
EnergyBins(n) == linspace(hp.energy_min, hp.energy_max, n - 1)

\* The rows of the embedding tables: trainable, here one fixed table each
pitch_embedding(idx) == [h \in 1..HiddenDim |-> 1000 * (idx + 1)]
energy_embedding(idx) == [h \in 1..HiddenDim |-> 10000 * (idx + 1)]

\* torch.round of a value in hundredths: to the nearest integer, halves to even
Round(v100) ==
    LET q == v100 \div 100
        r == v100 % 100
    IN IF r < 50 THEN q
       ELSE IF r > 50 THEN q + 1
       ELSE IF q % 2 = 0 THEN q ELSE q + 1

\* A plausible slip: the clamp is left out.
DurationRoundedUnclamped(log_duration_prediction, offset) ==
    [b \in 1..Len(log_duration_prediction) |->
        [t \in 1..Len(log_duration_prediction[b]) |->
            Round(Exp100(log_duration_prediction[b][t]) - offset)]]

\* clamp(round(exp(log_duration_prediction) - hp.log_offset), min=0)
DurationRounded(log_duration_prediction, offset) ==
    [b \in 1..Len(log_duration_prediction) |->
        [t \in 1..Len(log_duration_prediction[b]) |->
            LET d == Round(Exp100(log_duration_prediction[b][t]) - offset)
            IN IF d < 0 THEN 0 ELSE d]]

\* embedding(torch.bucketize(values, bins)), position by position
Embed(values, bins, which) ==
    [b \in 1..Len(values) |-> [t \in 1..Len(values[b]) |->
        IF which = "pitch" THEN pitch_embedding(bucketize(values[b][t], bins))
        ELSE energy_embedding(bucketize(values[b][t], bins))]]

\* x + embedding, broadcast along time (sizes equal, or one of them 1)
AddBroadcast(x, e) ==
    LET Lx == Len(x[1])
        Le == Len(e[1])
        L == IF Lx >= Le THEN Lx ELSE Le
    IN IF Lx # Le /\ Lx # 1 /\ Le # 1 THEN [err |-> TRUE, out |-> <<>>]
       ELSE [err |-> FALSE,
             out |-> [b \in 1..Len(x) |-> [t \in 1..L |-> [h \in 1..HiddenDim |->
                        x[b][IF Lx = 1 THEN 1 ELSE t][h]
                        + e[b][IF Le = 1 THEN 1 ELSE t][h]]]]]

\* utils.get_mask_from_lengths(lengths): one row per sample, as wide as the
\* largest length, True from the sample's length on
get_mask_from_lengths(lengths) ==
    [b \in 1..Len(lengths) |-> [t \in 1..MaxSeq(lengths) |-> t > lengths[b]]]

\* What forward leaves when it raises; handed is <<d>> once the counts d were
\* handed to the length regulator
VARaised(handed) ==
    [err |-> TRUE, x |-> <<>>, log_duration_prediction |-> <<>>,
     pitch_prediction |-> <<>>, energy_prediction |-> <<>>,
     mel_len |-> <<>>, mel_mask |-> <<>>, duration_values |-> handed]

\* The rest of forward once the three predictors have returned
VAfuse(a, ldp, pp, ep, duration_values) ==
    LET pe == Embed(IF a.pitch_target # <<>> THEN a.pitch_target[1] ELSE pp,
                    pitch_bins, "pitch")
        ee == Embed(IF a.energy_target # <<>> THEN a.energy_target[1] ELSE ep,
                    energy_bins, "energy")
        x1 == AddBroadcast(a.x, pe)
    IN IF x1.err THEN VARaised(<<>>)
       ELSE LET x2 == AddBroadcast(x1.out, ee)
            IN IF x2.err THEN VARaised(<<>>)
               ELSE LET r == LR(x2.out, duration_values, a.max_len)
                    IN IF r.err THEN VARaised(<<duration_values>>)
                       ELSE [err |-> FALSE, x |-> r.output,
                             log_duration_prediction |-> ldp,
                             pitch_prediction |-> pp,
                             energy_prediction |-> ep,
                             mel_len |-> r.mel_len,
                             mel_mask |-> IF a.mel_mask = <<>>
                                          THEN get_mask_from_lengths(r.mel_len)
                                          ELSE a.mel_mask[1],
                             duration_values |-> <<duration_values>>]

\* A plausible slip: the predicted counts are used although a target is given.
VAdurationValuesPredicted(a, log_duration_prediction) ==
    DurationRounded(log_duration_prediction, log_offset)

\* The counts forward hands to the length regulator
VAdurationValues(a, log_duration_prediction) ==
    IF a.duration_target # <<>> THEN a.duration_target[1]
    ELSE DurationRounded(log_duration_prediction, log_offset)

\* VarianceAdaptor.forward; a.dnet, a.pnet, a.enet are what the three
\* predictors' networks compute on x
VAforward(a) ==
    LET dp == VPforward(kernel, a.x, a.src_mask, a.dnet)
        pr == VPforward(kernel, a.x, a.src_mask, a.pnet)
        er == VPforward(kernel, a.x, a.src_mask, a.enet)
    IN IF dp.err \/ pr.err \/ er.err THEN VARaised(<<>>)
       ELSE VAfuse(a, dp.out, pr.out, er.out, VAdurationValues(a, dp.out))

-----------------------------------------------------------------------------
(* Inputs *)

\* Hidden sequences: the all-zero batch, and a batch whose vectors all differ
HiddenInputs ==
    { [b \in 1..BatchSize |-> [i \in 1..NPos |-> [h \in 1..HiddenDim |->
          k * (100 * b + 10 * i + h)]]] : k \in {0, 1} }

Rows(V) == [1..NPos -> V]

DurationInputs == { TwoRows(r1, r2) : r1 \in Rows(0..MaxDur), r2 \in Rows(0..MaxDur) }

MaxLenInputs == {<<>>} \cup { <<m>> : m \in 0..(NPos * MaxDur + 1) }


\* Encoder outputs of T positions
EncoderInputs(T) ==
    { [b \in 1..BatchSize |-> SubSeq(x[b], 1, T)] : x \in HiddenInputs }

\* Masks over T positions, none included
MaskInputs(T) ==
    {<<>>} \cup { <<TwoRows(r1, r2)>> : r1 \in [1..T -> BOOLEAN], r2 \in [1..T -> BOOLEAN] }

\* Raw network outputs: sample b's values are c[b], 2*c[b], 3*c[b], ...
RawCoefs == {-1, 0, 2}
NetInputs ==
    { [b \in 1..BatchSize |-> [t \in 1..(NPos + 2) |-> TwoRows(c1, c2)[b] * t]] :
        c1 \in RawCoefs, c2 \in RawCoefs }

\* Strictly increasing boundary vectors of n-1 boundaries
BoundaryInputs(n) ==
    { bd \in [1..(n - 1) -> 0..MaxBoundary] :
        \A i \in 1..(n - 2) : bd[i] < bd[i + 1] }

ValueInputs == -1..(MaxBoundary + 1)

\* Source masks: none, no padding, the last position of the even samples padded
SrcMaskInputs ==
    {<<>>} \cup
    { <<[b \in 1..BatchSize |-> [t \in 1..NPos |-> t > NPos - k * ((b + 1) % 2)]]>> :
        k \in {0, 1} }

MelMaskInputs == {<<>>, <<[b \in 1..BatchSize |-> [t \in 1..NPos |-> t > 1]]>>}

\* Ground-truth durations: none, or a free first row (a negative count
\* included: forward checks nothing) and a constant second row
DurationTargetInputs ==
    {<<>>} \cup
    { <<TwoRows(r1, [i \in 1..NPos |-> c])>> :
        r1 \in Rows((-1)..MaxDur), c \in 0..MaxDur }

\* Log-duration network outputs: constant along a sample
LogVals == {-1, 0, 1}
LogNetInputs ==
    { [b \in 1..BatchSize |-> [t \in 1..(NPos + 2) |-> TwoRows(c1, c2)[b]]] :
        c1 \in LogVals, c2 \in LogVals }

\* With a target given, two networks are enough to tell what depends on them
LogNetInputsFor(target) ==
    IF target = <<>> THEN LogNetInputs
    ELSE { n \in LogNetInputs : n[1][1] = 1 /\ n[BatchSize][1] # 0 }

Constant(v, T) == [b \in 1..BatchSize |-> [t \in 1..T |-> v]]

\* Pitch and energy: one network each, and targets none or both given
PitchNet == [b \in 1..BatchSize |-> [t \in 1..(NPos + 2) |-> 100 * (b + t)]]
EnergyNet == [b \in 1..BatchSize |-> [t \in 1..(NPos + 2) |-> b + t - 2]]
VarianceTargetInputs ==
    { [pitch |-> <<>>, energy |-> <<>>],
      [pitch |-> <<Constant(100, NPos)>>, energy |-> <<Constant(3, NPos)>>] }

MaxLenInputsVA == {<<>>, <<MaxDur>>, <<NPos * MaxDur + 1>>}

LogOffsets == {50, 100}

-----------------------------------------------------------------------------
(* Construction and calls *)

NoCall == [none |-> TRUE]

\* LengthRegulator() holds no configuration
InitLR ==
    /\ kernel = 0 /\ log_offset = 0 /\ n_bins = 0
    /\ pitch_bins = <<>> /\ energy_bins = <<>>
    /\ op = "init" /\ args = NoCall /\ ret = NoCall

\* length_regulator(x, duration, max_len)
CallLR ==
    /\ op = "init"
    /\ \E x \in HiddenInputs, duration \in DurationInputs, max_len \in MaxLenInputs :
        /\ op' = "LR"
        /\ args' = [x |-> x, duration |-> duration, max_len |-> max_len]
        /\ ret' = LR(x, duration, max_len)
    /\ UNCHANGED <<kernel, log_offset, n_bins, pitch_bins, energy_bins>>

\* The caller takes the result; the modules keep nothing of a call
Return ==
    /\ op # "init"
    /\ op' = "init" /\ args' = NoCall /\ ret' = NoCall
    /\ UNCHANGED <<kernel, log_offset, n_bins, pitch_bins, energy_bins>>

NextLR == CallLR \/ Return

SpecLR == InitLR /\ [][NextLR]_vars

\* VariancePredictor(): the kernel size is read from hp
InitVP ==
    /\ kernel \in 1..MaxKernel
    /\ log_offset = 0 /\ n_bins = 0
    /\ pitch_bins = <<>> /\ energy_bins = <<>>
    /\ op = "init" /\ args = NoCall /\ ret = NoCall

\* predictor(encoder_output, mask)
CallVP ==
    /\ op = "init" /\ kernel >= 1
    /\ \E T \in 1..NPos :
       \E encoder_output \in EncoderInputs(T), mask \in MaskInputs(T), net \in NetInputs :
        /\ op' = "VP"
        /\ args' = [encoder_output |-> encoder_output, mask |-> mask, net |-> net]
        /\ ret' = VPforward(kernel, encoder_output, mask, net)
    /\ UNCHANGED <<kernel, log_offset, n_bins, pitch_bins, energy_bins>>

NextVP == CallVP \/ Return

SpecVP == InitVP /\ [][NextVP]_vars

\* Bins as any training may have left them, as long as they are increasing
InitBucket ==
    /\ kernel = 0 /\ log_offset = 0
    /\ n_bins \in 2..MaxBins
    /\ pitch_bins \in BoundaryInputs(n_bins)
    /\ energy_bins \in BoundaryInputs(n_bins)
    /\ op = "init" /\ args = NoCall /\ ret = NoCall

\* torch.bucketize(value, self.pitch_bins) or (value, self.energy_bins)
CallBucketize ==
    /\ op = "init" /\ n_bins >= 2
    /\ \E which \in {"pitch", "energy"}, v \in ValueInputs :
        /\ op' = "bucketize"
        /\ args' = [which |-> which, v |-> v]
        /\ ret' = [index |-> bucketize(v, IF which = "pitch" THEN pitch_bins
                                          ELSE energy_bins)]
    /\ UNCHANGED <<kernel, log_offset, n_bins, pitch_bins, energy_bins>>

NextBucket == CallBucketize \/ Return

SpecBucket == InitBucket /\ [][NextBucket]_vars

\* VarianceAdaptor(): three predictors, the bins and the embedding tables
InitVA ==
    /\ \E j \in 0..(MaxKernel - 1) : kernel = MaxKernel - j
    /\ log_offset \in LogOffsets
    /\ n_bins = MaxBins
    /\ pitch_bins = PitchBins(n_bins)
    /\ energy_bins = EnergyBins(n_bins)
    /\ op = "init" /\ args = NoCall /\ ret = NoCall

\* adaptor(x, src_mask, mel_mask, duration_target, pitch_target, energy_target,
\*         max_len)
CallVA ==
    /\ op = "init" /\ kernel >= 1 /\ n_bins >= 2 /\ log_offset > 0
    /\ \E x \in { h \in HiddenInputs : h[1][1] # ZeroVec },
          src_mask \in SrcMaskInputs, mel_mask \in MelMaskInputs,
          duration_target \in DurationTargetInputs,
          vt \in VarianceTargetInputs, max_len \in MaxLenInputsVA :
       \E dnet \in LogNetInputsFor(duration_target) :
        LET a == [x |-> x, src_mask |-> src_mask, mel_mask |-> mel_mask,
                  duration_target |-> duration_target,
                  pitch_target |-> vt.pitch, energy_target |-> vt.energy,
                  max_len |-> max_len,
                  dnet |-> dnet, pnet |-> PitchNet, enet |-> EnergyNet]
        IN /\ op' = "VA"
           /\ args' = a
           /\ ret' = VAforward(a)
    /\ UNCHANGED <<kernel, log_offset, n_bins, pitch_bins, energy_bins>>

NextVA == CallVA \/ Return

SpecVA == InitVA /\ [][NextVA]_vars

\* Every module, every call it can take once constructed: a predictor needs
\* its kernel size, the bucketization the bins, the adaptor both
Init == InitLR \/ InitVP \/ InitBucket \/ InitVA

Next == CallLR \/ CallVP \/ CallBucketize \/ CallVA \/ Return

Spec == Init /\ [][Next]_vars

-----------------------------------------------------------------------------
(* Claims about the Length Regulator, under SpecLR *)

Batch == 1..BatchSize

LRReturned == op = "LR" /\ ~ret.err

\* The real (unpadded) length a sample requires
RealLen(b) == SumSeq(args.duration[b])

\* C1: a max_len smaller than the real length of some sample makes the call
\* raise; no output, truncated or not, is returned.
C1_MaxLenViolationRaises ==
    (op = "LR" /\ args.max_len # <<>>
        /\ \E b \in Batch : RealLen(b) > args.max_len[1])
    => (ret.err /\ ret.output = <<>>)

C1_Witness ==
    /\ op = "LR" /\ args.max_len # <<>> /\ ret.err
    /\ \E b \in Batch : RealLen(b) > args.max_len[1] /\ args.max_len[1] > 0
    /\ \E b \in Batch : RealLen(b) <= args.max_len[1]

\* C3: for non-negative durations, mel_len[b] is the sum of sample b's
\* durations, whatever max_len and the other samples are.
C3_MelLenIsDurationSum ==
    LRReturned => \A b \in Batch : ret.mel_len[b] = RealLen(b)

C3_Witness ==
    /\ LRReturned /\ args.max_len # <<>>
    /\ \E b, c \in Batch : RealLen(b) < RealLen(c) /\ RealLen(c) < args.max_len[1]
    /\ ret.mel_len[1] = RealLen(1)

\* The positions of a sample that own frame t: those whose run of frames,
\* laid out in position order, covers t
Owners(d, t) ==
    { i \in 1..Len(d) :
        SumSeq(SubSeq(d, 1, i - 1)) < t /\ t <= SumSeq(SubSeq(d, 1, i)) }

\* C4: the expanded sequence of a sample is, in position order, duration[i]
\* copies of position i's vector: frame t holds the vector of the one position
\* whose run covers t, and a position of duration 0 owns no frame.
C4_ExpansionIsOrderedRepetition ==
    LRReturned =>
        \A b \in Batch : \A t \in 1..RealLen(b) :
            /\ Cardinality(Owners(args.duration[b], t)) = 1
            /\ \A i \in Owners(args.duration[b], t) : ret.output[b][t] = args.x[b][i]

C4_Witness ==
    /\ LRReturned /\ args.x[1][1] # ZeroVec
    /\ \E b \in Batch : \E i, j \in 1..NPos :
          /\ i < j /\ args.duration[b][i] = 0 /\ args.duration[b][j] >= 2
          /\ ret.output[b][1] = args.x[b][j] /\ ret.output[b][2] = args.x[b][j]

\* C5: the frame dimension is max_len when max_len is supplied, the largest
\* real length of the batch when it is not, and every row of sample b from
\* frame mel_len[b] on is the zero vector, also for a sample of real length 0.
C5_PaddedToLengthWithZeros ==
    LRReturned =>
        \A b \in Batch :
            /\ Len(ret.output[b]) =
                  (IF args.max_len # <<>> THEN args.max_len[1]
                   ELSE MaxSeq([c \in Batch |-> RealLen(c)]))
            /\ \A t \in 1..Len(ret.output[b]) :
                  t > ret.mel_len[b] => ret.output[b][t] = ZeroVec

C5_Witness ==
    /\ LRReturned /\ args.x[1][1] # ZeroVec /\ args.max_len # <<>>
    /\ \E b, c \in Batch :
          /\ RealLen(b) = 0 /\ RealLen(c) > 0 /\ RealLen(c) < args.max_len[1]
          /\ Len(ret.output[b]) = args.max_len[1]
          /\ \A t \in 1..Len(ret.output[b]) : ret.output[b][t] = ZeroVec

-----------------------------------------------------------------------------
(* Claims about the Variance Predictor, under SpecVP *)

VPReturned == op = "VP" /\ ~ret.err

\* C9: a returned value is 0 at every position the mask marks and the raw
\* network output at every position it does not mark; without a mask every
\* value is the raw network output.
C9_MaskedPositionsAreZero ==
    VPReturned =>
        \A b \in Batch : \A t \in 1..Len(ret.out[b]) :
            IF args.mask = <<>> THEN ret.out[b][t] = args.net[b][t]
            ELSE (t <= Len(args.mask[1][b])
                    /\ t <= conv_layer_len(Len(args.encoder_output[b]), kernel))
                 => ret.out[b][t] = (IF args.mask[1][b][t] THEN 0 ELSE args.net[b][t])

C9_Witness ==
    /\ VPReturned /\ args.mask # <<>>
    /\ \A b \in Batch : Len(ret.out[b]) = Len(args.mask[1][b])
    /\ \E b \in Batch : \E t, u \in 1..Len(ret.out[b]) :
          /\ args.mask[1][b][t] /\ args.net[b][t] # 0 /\ ret.out[b][t] = 0
          /\ ~args.mask[1][b][u] /\ ret.out[b][u] = args.net[b][u] /\ ret.out[b][u] # 0

\* C10: for every kernel size K >= 1 and every input length T the predictor
\* returns, and its two convolutions and its output keep the length T.
C10_PredictorKeepsLength ==
    op = "VP" =>
        /\ ~ret.err
        /\ \A b \in Batch :
              /\ conv_layer_len(Len(args.encoder_output[b]), kernel)
                    = Len(args.encoder_output[b])
              /\ Len(ret.out[b]) = Len(args.encoder_output[b])

-----------------------------------------------------------------------------
(* Claims about bucketization, under SpecBucket *)

Bins == IF args.which = "pitch" THEN pitch_bins ELSE energy_bins

\* C7: the bucket index lies in 0..n_bins-1; a value below the first boundary
\* gets 0, a value above the last gets n_bins-1, and a value equal to the
\* boundary at (0-based) position k gets k.
C7_BucketIndexTieRule ==
    op = "bucketize" =>
        /\ ret.index \in 0..(n_bins - 1)
        /\ (args.v < Bins[1] => ret.index = 0)
        /\ (args.v > Bins[Len(Bins)] => ret.index = n_bins - 1)
        /\ \A k \in 1..Len(Bins) : (args.v = Bins[k] => ret.index = k - 1)

C7_Witness ==
    /\ op = "bucketize" /\ Len(Bins) >= 2
    /\ args.v = Bins[Len(Bins)] /\ ret.index = Len(Bins) - 1

-----------------------------------------------------------------------------
(* Claims about the Variance Adaptor, under SpecVA *)

VAReturned == op = "VA" /\ ~ret.err

\* The counts were handed to the length regulator
Handed == op = "VA" /\ ret.duration_values # <<>>

NonNegative(d) == \A b \in 1..Len(d) : \A t \in 1..Len(d[b]) : d[b][t] >= 0

\* C2 as stated: with or without a duration target, every count handed to the
\* length regulator is non-negative.
C2_AllCountsNonNegative == Handed => NonNegative(ret.duration_values[1])

\* C2 as amended: without a duration target every count handed to the length
\* regulator is non-negative; with one, the counts are the target itself,
\* unclamped.
C2_PredictedCountsNonNegative ==
    Handed =>
        IF args.duration_target = <<>> THEN NonNegative(ret.duration_values[1])
        ELSE ret.duration_values[1] = args.duration_target[1]

C2_Witness ==
    /\ VAReturned /\ args.duration_target = <<>>
    /\ \E b \in Batch : \E t \in 1..NPos :
          /\ Round(Exp100(ret.log_duration_prediction[b][t]) - log_offset) < 0
          /\ ret.duration_values[1][b][t] = 0

\* C6: with a duration target the counts are the target, mel_len[b] is the sum
\* of the target's row b, and the returned log_duration_prediction is what the
\* duration predictor computes, whatever the target.
C6_TargetUsedVerbatim ==
    (VAReturned /\ args.duration_target # <<>>) =>
        /\ ret.duration_values[1] = args.duration_target[1]
        /\ \A b \in Batch : ret.mel_len[b] = SumSeq(args.duration_target[1][b])
        /\ ret.log_duration_prediction
              = VPforward(kernel, args.x, args.src_mask, args.dnet).out

C6_Witness ==
    /\ VAReturned /\ args.duration_target # <<>>
    /\ \A b \in Batch : \A t \in 1..NPos :
          DurationRounded(ret.log_duration_prediction, log_offset)[b][t]
              # args.duration_target[1][b][t]
    /\ \E b, c \in Batch : ret.mel_len[b] < ret.mel_len[c]

\* C8: without a mel_mask the returned mask has one entry per frame of the
\* returned sequence, True exactly from frame mel_len[b] on; a mel_mask given
\* is returned as it is.
C8_MaskCoversReturnedFrames ==
    VAReturned =>
        IF args.mel_mask # <<>> THEN ret.mel_mask = args.mel_mask[1]
        ELSE \A b \in Batch :
                /\ Len(ret.mel_mask[b]) = Len(ret.x[b])
                /\ \A t \in 1..Len(ret.x[b]) : ret.mel_mask[b][t] = (t > ret.mel_len[b])

====
